---- MODULE Spec2Model ----
(***************************************************************************)
(* Model of h/schemas/annotation.py: the create and update annotation      *)
(* schemas.  A payload (a JSON object) is a function from a finite set of  *)
(* top-level keys to values; a Python dict is a function whose DOMAIN is   *)
(* its key set, a list is a sequence.  Strings that the code takes apart   *)
(* or builds (uri, group ids, permission principals) are sequences of      *)
(* tokens; strings that the code only moves around are TLA+ strings.       *)
(***************************************************************************)
EXTENDS Integers, Sequences, FiniteSets, TLC

VARIABLES data, schema, result

vars == <<data, schema, result>>

----------------------------------------------------------------------------
(* Bounds of the model. *)

\* Largest number of top-level keys of a generated payload.
MaxKeys == 3

\* Largest number of characters of a generated `uri`.
MaxUriLen == 3

----------------------------------------------------------------------------
(* Dict helpers. *)

EmptyDict == <<>>

\* dict.get(k, default)
Get(d, k, default) == IF k \in DOMAIN d THEN d[k] ELSE default

Pop_keeps(d, k) == d

\* the dict left by d.pop(k, ...)
Pop(d, k) == [x \in DOMAIN d \ {k} |-> d[x]]

\* the dict left by popping every key of ks
PopAll(d, ks) == [x \in DOMAIN d \ ks |-> d[x]]

----------------------------------------------------------------------------
(* unicode.strip(): drop leading and trailing whitespace. *)

Whitespace == {" ", "\t", "\n"}

RECURSIVE lstrip(_)
lstrip(s) == IF s # <<>> /\ s[1] \in Whitespace THEN lstrip(Tail(s)) ELSE s

RECURSIVE rstrip(_)
rstrip(s) ==
    IF s # <<>> /\ s[Len(s)] \in Whitespace
    THEN rstrip(SubSeq(s, 1, Len(s) - 1))
    ELSE s

strip_left_only(s) == lstrip(s)

strip(s) == rstrip(lstrip(s))

----------------------------------------------------------------------------
(* Module-level helpers of annotation.py. *)

protected_fields_short ==
    {"created", "updated", "user", "id", "links", "flagged", "hidden",
     "moderation"}

protected_fields ==
    {"created", "updated", "user", "id", "links", "flagged", "hidden",
     "moderation", "user_info"}

_remove_protected_fields(appstruct) == PopAll(appstruct, protected_fields)

\* 'group:{id}'.format(id=groupid)
group_principal(groupid) == <<"group:">> \o groupid

_shared_contains(permissions, groupid) ==
    \E i \in 1..Len(permissions["read"]) :
        permissions["read"][i] = group_principal(groupid)

_shared(permissions, groupid) ==
    permissions["read"] = <<group_principal(groupid)>>

_target_selectors_last(targets) ==
    IF targets # <<>> /\ "selector" \in DOMAIN targets[Len(targets)]
    THEN targets[Len(targets)]["selector"]
    ELSE <<>>

_target_selectors(targets) ==
    IF targets # <<>> /\ "selector" \in DOMAIN targets[1]
    THEN targets[1]["selector"]
    ELSE <<>>

\* h.util.document_claims: two pure functions of (document, claimant).
document_uris_from_data(document, claimant) ==
    <<[claim |-> "uri", document |-> document, claimant |-> claimant]>>

document_metas_from_data(document, claimant) ==
    <<[claim |-> "meta", document |-> document, claimant |-> claimant]>>

_document(document, claimant) ==
    LET doc == IF DOMAIN document = {} THEN EmptyDict ELSE document
    IN  [document_uri_dicts |-> document_uris_from_data(doc, claimant),
         document_meta_dicts |-> document_metas_from_data(doc, claimant)]

----------------------------------------------------------------------------
(* AnnotationSchema.schema: the constraints on the recognised fields.      *)
(* Unknown top-level fields are unconstrained.                             *)

\* 'pattern': '^(acct:|group:).+$'
principal_ok(p) == Len(p) >= 2 /\ p[1] \in {"acct:", "group:"}

permissions_errors(appstruct) ==
    IF "permissions" \notin DOMAIN appstruct THEN {}
    ELSE LET perms == appstruct["permissions"]
         IN  (IF "read" \in DOMAIN perms THEN {}
              ELSE {"permissions: 'read' is a required property"})
             \cup
             {"permissions: principal does not match '^(acct:|group:).+$'" :
                 k \in {a \in DOMAIN perms \cap {"admin", "delete", "read", "update"} :
                           \E i \in 1..Len(perms[a]) : ~principal_ok(perms[a][i])}}

document_errors(appstruct) ==
    IF "document" \notin DOMAIN appstruct THEN {}
    ELSE LET doc == appstruct["document"]
         IN  IF "link" \in DOMAIN doc
                /\ \E i \in 1..Len(doc["link"]) : "href" \notin DOMAIN doc["link"][i]
             THEN {"document.link: 'href' is a required property"}
             ELSE {}

target_errors(appstruct) ==
    IF "target" \notin DOMAIN appstruct THEN {}
    ELSE LET targets == appstruct["target"]
         IN  IF \E i \in 1..Len(targets) :
                    /\ "selector" \in DOMAIN targets[i]
                    /\ \E j \in 1..Len(targets[i]["selector"]) :
                           "type" \notin DOMAIN targets[i]["selector"][j]
             THEN {"target.selector: 'type' is a required property"}
             ELSE {}

schema_errors(appstruct) ==
    permissions_errors(appstruct) \cup document_errors(appstruct)
        \cup target_errors(appstruct)

\* Outcomes of a validate() call.
Raise(message) == [status |-> "error", message |-> message]

RaiseSchema(errors) == [status |-> "error", schema_errors |-> errors]

Return(appstruct) == [status |-> "ok", value |-> appstruct]

UriRequired == "uri: 'uri' is a required property"

----------------------------------------------------------------------------
(* CreateAnnotationSchema.validate.  The working pair st holds the dict    *)
(* being drained (appstruct) and the dict being built (new_appstruct).     *)

WorldGroup == <<"__world__">>

\* text, tags, groupid, references with their defaults
create_fields(st) ==
    [appstruct |-> PopAll(st.appstruct, {"text", "tags", "group", "references"}),
     new_appstruct |->
        ("text" :> Get(st.appstruct, "text", ""))
        @@ ("tags" :> Get(st.appstruct, "tags", <<>>))
        @@ ("groupid" :> Get(st.appstruct, "group", WorldGroup))
        @@ ("references" :> Get(st.appstruct, "references", <<>>))
        @@ st.new_appstruct]

create_shared(st) ==
    IF "permissions" \in DOMAIN st.appstruct
    THEN [appstruct |-> Pop(st.appstruct, "permissions"),
          new_appstruct |->
             ("shared" :> _shared(st.appstruct["permissions"],
                                  st.new_appstruct["groupid"]))
             @@ st.new_appstruct]
    ELSE [appstruct |-> st.appstruct,
          new_appstruct |-> ("shared" :> FALSE) @@ st.new_appstruct]

\* the same three lines in create and in update
set_target_selectors(st) ==
    IF "target" \in DOMAIN st.appstruct
    THEN [appstruct |-> Pop(st.appstruct, "target"),
          new_appstruct |->
             ("target_selectors" :> _target_selectors(st.appstruct["target"]))
             @@ st.new_appstruct]
    ELSE st

create_reply_group_kept(st) == st

\* replies: delete any group sent by the client
create_reply_group(st) ==
    IF st.new_appstruct["references"] # <<>>
       /\ "groupid" \in DOMAIN st.new_appstruct
    THEN [appstruct |-> st.appstruct,
          new_appstruct |-> Pop(st.new_appstruct, "groupid")]
    ELSE st

create_document(st) ==
    [appstruct |-> Pop(st.appstruct, "document"),
     new_appstruct |->
        ("document" :> _document(Get(st.appstruct, "document", EmptyDict),
                                 st.new_appstruct["target_uri"]))
        @@ st.new_appstruct]

\* new_appstruct['extra'] = appstruct
finish(st) == ("extra" :> st.appstruct) @@ st.new_appstruct

Create_validate(payload, authenticated_userid) ==
    IF schema_errors(payload) # {} THEN RaiseSchema(schema_errors(payload))
    ELSE
    LET appstruct == _remove_protected_fields(payload)
        uri == strip(Get(appstruct, "uri", <<>>))
    IN  IF uri = <<>> THEN Raise(UriRequired)
        ELSE
        LET s0 == [appstruct |-> Pop(appstruct, "uri"),
                   new_appstruct |->
                      ("userid" :> authenticated_userid)
                      @@ ("target_uri" :> uri)]
            s1 == create_fields(s0)
            s2 == create_shared(s1)
            s3 == set_target_selectors(s2)
            s4 == create_reply_group(s3)
            s5 == create_document(s4)
        IN  Return(finish(s5))

----------------------------------------------------------------------------
(* UpdateAnnotationSchema.validate. *)

immutable_fields_short == {"group", "userid", "references"}

\* Some fields are not allowed to be changed in annotation updates.
immutable_fields == {"group", "groupid", "userid", "references"}

update_uri_untrimmed(st) ==
    IF "uri" \in DOMAIN st.appstruct
    THEN [appstruct |-> Pop(st.appstruct, "uri"),
          new_appstruct |->
             ("target_uri" :> st.appstruct["uri"]) @@ st.new_appstruct]
    ELSE st

\* called once the blank-uri failure is excluded
update_uri(st) ==
    IF "uri" \in DOMAIN st.appstruct
    THEN [appstruct |-> Pop(st.appstruct, "uri"),
          new_appstruct |->
             ("target_uri" :> strip(st.appstruct["uri"])) @@ st.new_appstruct]
    ELSE st

update_shared_world(st, groupid) ==
    IF "permissions" \in DOMAIN st.appstruct
    THEN [appstruct |-> Pop(st.appstruct, "permissions"),
          new_appstruct |->
             ("shared" :> _shared(st.appstruct["permissions"], WorldGroup))
             @@ st.new_appstruct]
    ELSE st

update_shared(st, groupid) ==
    IF "permissions" \in DOMAIN st.appstruct
    THEN [appstruct |-> Pop(st.appstruct, "permissions"),
          new_appstruct |->
             ("shared" :> _shared(st.appstruct["permissions"], groupid))
             @@ st.new_appstruct]
    ELSE st

\* text and tags keep their name
update_same_name(st) ==
    LET present == {"text", "tags"} \cap DOMAIN st.appstruct
    IN  [appstruct |-> PopAll(st.appstruct, present),
         new_appstruct |->
            [k \in present |-> st.appstruct[k]] @@ st.new_appstruct]

update_document_existing(st, existing_target_uri) ==
    IF "document" \in DOMAIN st.appstruct
    THEN [appstruct |-> Pop(st.appstruct, "document"),
          new_appstruct |->
             ("document" :> _document(st.appstruct["document"],
                                      existing_target_uri))
             @@ st.new_appstruct]
    ELSE st

update_document(st, existing_target_uri) ==
    IF "document" \in DOMAIN st.appstruct
    THEN [appstruct |-> Pop(st.appstruct, "document"),
          new_appstruct |->
             ("document" :> _document(st.appstruct["document"],
                                      Get(st.new_appstruct, "target_uri",
                                          existing_target_uri)))
             @@ st.new_appstruct]
    ELSE st

Update_validate(payload, existing_target_uri, groupid) ==
    IF schema_errors(payload) # {} THEN RaiseSchema(schema_errors(payload))
    ELSE
    LET appstruct == PopAll(_remove_protected_fields(payload), immutable_fields)
    IN  IF "uri" \in DOMAIN appstruct /\ strip(appstruct["uri"]) = <<>>
        THEN Raise(UriRequired)
        ELSE
        LET s0 == [appstruct |-> appstruct, new_appstruct |-> EmptyDict]
            s1 == update_uri(s0)
            s2 == update_shared(s1, groupid)
            s3 == set_target_selectors(s2)
            s4 == update_same_name(s3)
            s5 == update_document(s4, existing_target_uri)
        IN  Return(finish(s5))

----------------------------------------------------------------------------
(* The payloads a client can send. *)

UriChars == {" ", "a"}

UriStrings == UNION {[1..n -> UriChars] : n \in 0..MaxUriLen}

GroupIds == {<<"abc">>, WorldGroup}

GroupAbc == <<"group:", "abc">>

GroupWorld == <<"group:", "__world__">>

AcctX == <<"acct:", "x">>

ReadLists ==
    {<<>>, <<GroupAbc>>, <<GroupWorld>>, <<AcctX>>, <<GroupAbc, AcctX>>,
     <<GroupAbc, GroupAbc>>}

PermissionsValues ==
    {("read" :> r) : r \in ReadLists}
    \cup {("read" :> r) @@ ("admin" :> <<AcctX>>) @@ ("update" :> <<GroupAbc>>)
            @@ ("delete" :> <<>>) : r \in {<<GroupAbc>>, <<AcctX>>}}
    \cup {("admin" :> <<AcctX>>), ("read" :> <<<<"abc">>>>),
          ("read" :> <<<<"group:">>>>)}

Quote == [type |-> "TextQuoteSelector"]

Other == [type |-> "X"]

TargetValues ==
    {<<>>,
     <<EmptyDict>>,
     <<("source" :> "http://example.com")>>,
     <<("selector" :> <<Quote>>)>>,
     <<("selector" :> <<Quote, Other>>) @@ ("source" :> "http://example.com")>>,
     <<("selector" :> <<Quote>>), ("selector" :> <<Other>>)>>,
     <<EmptyDict, ("selector" :> <<Other>>)>>,
     <<("selector" :> <<EmptyDict>>)>>}

DocumentValues ==
    {EmptyDict,
     ("link" :> <<[href |-> "http://example.com/doc"]>>),
     ("link" :> <<[type |-> "text/html"]>>)}

PayloadKeys ==
    <<"uri", "text", "tags", "group", "references", "permissions", "target",
      "document", "groupid", "userid", "foo", "created", "updated", "user",
      "id", "links", "flagged", "hidden", "moderation", "user_info">>

Values(k) ==
    CASE k = "uri" -> UriStrings
      [] k = "text" -> {"", "hello"}
      [] k = "tags" -> {<<>>, <<"t1", "t2">>}
      [] k = "group" -> GroupIds
      [] k = "references" -> {<<>>, <<"parent">>}
      [] k = "permissions" -> PermissionsValues
      [] k = "target" -> TargetValues
      [] k = "document" -> DocumentValues
      [] k = "foo" -> {"bar", "baz"}
      [] OTHER -> {"client"}

\* the payloads with at most MaxKeys keys among the first i of PayloadKeys
RECURSIVE PayloadsOver(_)
PayloadsOver(i) ==
    IF i = 0 THEN {EmptyDict}
    ELSE LET smaller == PayloadsOver(i - 1)
             k == PayloadKeys[i]
         IN  smaller
             \cup {(k :> v) @@ p :
                      v \in Values(k),
                      p \in {q \in smaller : Cardinality(DOMAIN q) < MaxKeys}}

Payloads == PayloadsOver(Len(PayloadKeys))

UserIds == {"acct:alice@example.com"}

ExistingUris == {<<"e">>}

----------------------------------------------------------------------------
(* One request: a schema object is constructed, then validate() is called  *)
(* once on the request's payload.                                          *)

NoSchema == [kind |-> "none"]

NoResult == [status |-> "none"]

Init ==
    /\ data \in Payloads
    /\ schema = NoSchema
    /\ result = NoResult

\* CreateAnnotationSchema(request)
CreateInit ==
    /\ schema = NoSchema
    /\ \E u \in UserIds :
          schema' = [kind |-> "create", authenticated_userid |-> u]
    /\ UNCHANGED <<data, result>>

\* UpdateAnnotationSchema(request, existing_target_uri, groupid)
UpdateInit ==
    /\ schema = NoSchema
    /\ \E e \in ExistingUris, g \in GroupIds :
          schema' = [kind |-> "update", existing_target_uri |-> e, groupid |-> g]
    /\ UNCHANGED <<data, result>>

CreateValidate ==
    /\ schema.kind = "create"
    /\ result = NoResult
    /\ result' = Create_validate(data, schema.authenticated_userid)
    /\ UNCHANGED <<data, schema>>

UpdateValidate ==
    /\ schema.kind = "update"
    /\ result = NoResult
    /\ result' = Update_validate(data, schema.existing_target_uri, schema.groupid)
    /\ UNCHANGED <<data, schema>>

Next == CreateInit \/ UpdateInit \/ CreateValidate \/ UpdateValidate

Spec == Init /\ [][Next]_vars

----------------------------------------------------------------------------
(* Vocabulary of the properties. *)

Validated == result.status # "none" /\ schema_errors(data) = {}

Created == schema.kind = "create" /\ result.status = "ok"

Updated == schema.kind = "update" /\ result.status = "ok"

NonBlank(s) == \E i \in 1..Len(s) : s[i] \notin {" ", "\t", "\n"}

\* t is s without its leading and trailing whitespace
IsTrimOf(s, t) ==
    \E i, j \in 0..Len(s) :
        /\ i + j <= Len(s)
        /\ t = SubSeq(s, i + 1, Len(s) - j)
        /\ \A x \in 1..i : s[x] \in {" ", "\t", "\n"}
        /\ \A x \in (Len(s) - j + 1)..Len(s) : s[x] \in {" ", "\t", "\n"}
        /\ t # <<>> => (t[1] \notin {" ", "\t", "\n"}
                        /\ t[Len(t)] \notin {" ", "\t", "\n"})

\* the group a create request is made for
ClientGroup == Get(data, "group", <<"__world__">>)

----------------------------------------------------------------------------
\* C1: for a structurally valid payload, create succeeds iff the payload has
\* a uri that is non-empty after trimming; then target_uri is the trimmed
\* uri; otherwise it fails with "uri: 'uri' is a required property" and
\* returns no output.
C1_CreateUriRequired ==
    (schema.kind = "create" /\ Validated) =>
        IF "uri" \in DOMAIN data /\ NonBlank(data["uri"])
        THEN /\ result.status = "ok"
             /\ IsTrimOf(data["uri"], result.value["target_uri"])
        ELSE /\ result.status = "error"
             /\ DOMAIN result = {"status", "message"}
             /\ result.message = "uri: 'uri' is a required property"

\* a create that succeeded on a uri with whitespace on both sides
C1_Witness ==
    /\ Created
    /\ data["uri"] = <<" ", "a", " ">>
    /\ result.value["target_uri"] = <<"a">>

\* C2: for a structurally valid payload, update with uri absent succeeds
\* with no target_uri key; with uri present it fails with the uri-required
\* error exactly when the value is empty after trimming, and otherwise sets
\* target_uri to the trimmed value.
C2_UpdateUriOptional ==
    (schema.kind = "update" /\ Validated) =>
        IF "uri" \notin DOMAIN data
        THEN /\ result.status = "ok"
             /\ "target_uri" \notin DOMAIN result.value
        ELSE IF NonBlank(data["uri"])
        THEN /\ result.status = "ok"
             /\ IsTrimOf(data["uri"], result.value["target_uri"])
        ELSE /\ result.status = "error"
             /\ result.message = "uri: 'uri' is a required property"

\* an update that succeeded without a uri, keeping the existing one
C2_Witness ==
    /\ Updated
    /\ "uri" \notin DOMAIN data
    /\ "text" \in DOMAIN data
    /\ "target_uri" \notin DOMAIN result.value

C4_UpdateShared ==
    Updated =>
        /\ "shared" \in DOMAIN result.value <=> "permissions" \in DOMAIN data
        /\ "permissions" \in DOMAIN data =>
              result.value["shared"] =
                 (data["permissions"]["read"] = << <<"group:">> \o schema.groupid >>)

\* shared for the schema's group while the client sent another group
C4_Witness ==
    /\ Updated
    /\ "permissions" \in DOMAIN data
    /\ "group" \in DOMAIN data
    /\ data["group"] # schema.groupid
    /\ result.value["shared"] = TRUE

\* C5: on every successful create the output has no groupid key when the
\* payload's references is non-empty; otherwise groupid is the client-sent
\* group or "__world__".  references is always present (default empty).
C5_CreateReplyGroup ==
    Created =>
        /\ "references" \in DOMAIN result.value
        /\ result.value["references"] = Get(data, "references", <<>>)
        /\ IF Get(data, "references", <<>>) # <<>>
           THEN "groupid" \notin DOMAIN result.value
           ELSE /\ "groupid" \in DOMAIN result.value
                /\ result.value["groupid"] = ClientGroup

\* a reply for which the client sent a group
C5_Witness ==
    /\ Created
    /\ "group" \in DOMAIN data
    /\ Get(data, "references", <<>>) # <<>>
    /\ "groupid" \notin DOMAIN result.value

\* C6: for every successful create and update, none of created, updated,
\* user, id, links, flagged, hidden, moderation, user_info is a key of the
\* output or of its extra, and extra has none of the consumed payload
\* fields uri, text, tags, group, references, permissions, target, document.
C6_NoProtectedFields ==
    result.status = "ok" =>
        LET protected == {"created", "updated", "user", "id", "links",
                          "flagged", "hidden", "moderation", "user_info"}
            consumed == {"uri", "text", "tags", "group", "references",
                         "permissions", "target", "document"}
        IN  /\ DOMAIN result.value \cap protected = {}
            /\ DOMAIN result.value["extra"] \cap (protected \cup consumed) = {}

\* a success on a payload that carried a protected and an unknown field
C6_Witness ==
    /\ result.status = "ok"
    /\ "user_info" \in DOMAIN data
    /\ "foo" \in DOMAIN data
    /\ DOMAIN result.value["extra"] = {"foo"}

\* C7: update ignores client-supplied group, groupid, userid and
\* references: none of them is a key of the output or of its extra, and the
\* outcome is that of the payload without these four keys.
C7_UpdateIgnoresImmutable ==
    (schema.kind = "update" /\ Validated) =>
        LET four == {"group", "groupid", "userid", "references"}
            without == [k \in DOMAIN data \ four |-> data[k]]
        IN  /\ result = Update_validate(without, schema.existing_target_uri,
                                        schema.groupid)
            /\ result.status = "ok" =>
                  /\ DOMAIN result.value \cap four = {}
                  /\ DOMAIN result.value["extra"] \cap four = {}

\* an update whose payload carried a groupid and references
C7_Witness ==
    /\ Updated
    /\ {"groupid", "references"} \subseteq DOMAIN data
    /\ data["references"] # <<>>
    /\ "text" \in DOMAIN result.value

\* C8: in create and update the output has target_selectors iff the
\* payload supplied target; it is the selector list of the first target
\* entry when there is one and it has a selector, the empty list otherwise.
C8_TargetSelectors ==
    result.status = "ok" =>
        /\ "target_selectors" \in DOMAIN result.value <=> "target" \in DOMAIN data
        /\ "target" \in DOMAIN data =>
              LET targets == data["target"]
              IN  result.value["target_selectors"] =
                     IF Len(targets) > 0 /\ "selector" \in DOMAIN targets[1]
                     THEN targets[1]["selector"]
                     ELSE <<>>

\* two target entries with different selectors: the first one's is kept
C8_Witness ==
    /\ result.status = "ok"
    /\ "target" \in DOMAIN data
    /\ Len(data["target"]) = 2
    /\ result.value["target_selectors"] = <<[type |-> "TextQuoteSelector"]>>

\* C9: for every successful create or update, extra holds exactly the
\* top-level keys of the payload that are neither protected nor consumed
\* or discarded by the pipeline, each with its value unchanged.
C9_ExtraIsResidue ==
    result.status = "ok" =>
        LET protected == {"created", "updated", "user", "id", "links",
                          "flagged", "hidden", "moderation", "user_info"}
            consumed == {"uri", "text", "tags", "permissions", "target",
                         "document"}
            handled == IF schema.kind = "create"
                       THEN consumed \cup {"group", "references"}
                       ELSE consumed \cup {"group", "groupid", "userid",
                                           "references"}
            residue == DOMAIN data \ (protected \cup handled)
        IN  /\ "extra" \in DOMAIN result.value
            /\ DOMAIN result.value["extra"] = residue
            /\ \A k \in residue : result.value["extra"][k] = data[k]

\* a create whose payload carried an unknown field and a client groupid
C9_Witness ==
    /\ Created
    /\ {"foo", "groupid"} \subseteq DOMAIN data
    /\ result.value["extra"]["foo"] = data["foo"]
    /\ "groupid" \in DOMAIN result.value["extra"]

\* C10: every successful create has a document with document_uri_dicts and
\* document_meta_dicts computed from the payload's document (empty object
\* when absent) with the trimmed target_uri as claimant; an update has a
\* document iff the payload supplied one, its claimant being the new
\* trimmed uri when the payload has a uri and the existing target URI
\* otherwise.  Both collaborators get the same document and claimant.
C10_DocumentClaimant ==
    result.status = "ok" =>
        LET supplied == "document" \in DOMAIN data
            doc == Get(data, "document", <<>>)
            claimant == IF "uri" \in DOMAIN data
                        THEN result.value["target_uri"]
                        ELSE schema.existing_target_uri
        IN  /\ "document" \in DOMAIN result.value
                <=> (schema.kind = "create" \/ supplied)
            /\ "document" \in DOMAIN result.value =>
                  /\ DOMAIN result.value["document"] =
                        {"document_uri_dicts", "document_meta_dicts"}
                  /\ "uri" \in DOMAIN data => IsTrimOf(data["uri"], claimant)
                  /\ result.value["document"]["document_uri_dicts"] =
                        document_uris_from_data(doc, claimant)
                  /\ result.value["document"]["document_meta_dicts"] =
                        document_metas_from_data(doc, claimant)

\* an update that changes both the uri and the document
C10_Witness ==
    /\ Updated
    /\ "document" \in DOMAIN data
    /\ DOMAIN data["document"] # {}
    /\ "uri" \in DOMAIN data
    /\ data["uri"] # result.value["target_uri"]
    /\ "document" \in DOMAIN result.value

====
